---- MODULE Spec2Model ----
(***************************************************************************)
(* The generation orchestrator and the synthesis client adapter of the     *)
(* TTS backend (services/tts_service.py), as a state machine.              *)
(*                                                                         *)
(* One generation job is one run of the async generator                    *)
(* TTSService.generate_tts_for_document.  The code between two suspension  *)
(* points (a yield to the consumer, the await of the HTTP call, the await  *)
(* of the pacing sleep) runs atomically on the event loop, so every action *)
(* below is one such stretch of code.                                      *)
(*                                                                         *)
(* Wall-clock values (duration_ms of a call) are not modelled.             *)
(***************************************************************************)
EXTENDS Integers, Sequences, FiniteSets, TLC

\* ---------------------------------------------------------------- bounds
MaxChunks == 2      \* chunks in a parsed document
MaxSel == 2         \* length of a chunk_ids list given to generate
MaxJobs == 2        \* generate requests
RespLen == 2        \* len(response.content) of a non-empty response body
MaxText == 5        \* characters of a free-text markdown block
MaxBlocks == 3      \* blocks of a markdown document
MaxSize == 3        \* the largest max_chunk_size a parser is created with
MaxTokens == 3      \* markup tokens of a block

Jobs == 1..MaxJobs

\* Python's None where the field is a string
None == "None"

\* ------------------------------------------------------------- documents
\* ChunkType values the documents of the model use (models/schemas.py)
ChunkTypes == {"h1", "paragraph"}

\* config.py: pause_after_h1_ms .. pause_after_bullet_ms
PauseAfterMs(type) ==
    CASE type = "h1" -> 800
      [] type = "h2" -> 600
      [] type = "h3" -> 400
      [] type = "bullet" -> 200
      [] OTHER -> 300

\* config.py: heading_h1/h2/h3_loudness_boost (in tenths); 1.0 for the chunks
\* _create_bullet_chunk and _create_paragraph_chunks build
LoudnessBoost(type) ==
    CASE type = "h1" -> 13
      [] type = "h2" -> 12
      [] type = "h3" -> 11
      [] OTHER -> 10

\* A ContentChunk as the parser builds it: ids are dense from 0 in reading
\* order, char_count is len(text).
MkChunk(id, type) ==
    [id |-> id, type |-> type, char_count |-> id + 1,
     pause_after_ms |-> PauseAfterMs(type),
     loudness_boost |-> LoudnessBoost(type)]

\* The parsed documents handed to generate: up to MaxChunks chunks, a first
\* chunk of either type followed by paragraphs
Documents ==
    UNION { { [chunks |-> [k \in 1..n |->
                  MkChunk(k - 1, IF k = 1 THEN first ELSE "paragraph")]] :
                first \in ChunkTypes } : n \in 0..MaxChunks }

\* chunk_ids: Optional[list[int]].  given = FALSE is None.  Ids range over
\* 0..MaxChunks, so MaxChunks itself is always an id absent from the document;
\* lists may repeat ids and be in any order.
NoChunkIds == [given |-> FALSE, ids |-> <<>>]

ChunkIdLists ==
    {NoChunkIds} \cup
    UNION { { [given |-> TRUE, ids |-> s] : s \in [1..n -> 0..MaxChunks] } :
            n \in 0..MaxSel }

\* Python truthiness of an Optional[list]: None and [] are both falsy
Truthy(chunk_ids) == chunk_ids.given /\ Len(chunk_ids.ids) > 0

InList(x, s) == \E k \in 1..Len(s) : s[k] = x

\* [c for c in chunks if c.id in chunk_ids]
FilterChunks(chunks, ids) == SelectSeq(chunks, LAMBDA c : InList(c.id, ids))

\* The same list walked in the order of chunk_ids instead of document order
SelectChunks_SelOrder(document, chunk_ids) ==
    IF Truthy(chunk_ids)
    THEN LET hit(k) == FilterChunks(document.chunks, <<chunk_ids.ids[k]>>)
             F[k \in 0..Len(chunk_ids.ids)] ==
                 IF k = 0 THEN <<>>
                 ELSE IF InList(chunk_ids.ids[k], SubSeq(chunk_ids.ids, 1, k - 1))
                      THEN F[k - 1] ELSE F[k - 1] \o hit(k)
         IN F[Len(chunk_ids.ids)]
    ELSE document.chunks

\* generate_tts_for_document: chunks = document.chunks; if chunk_ids: filter
SelectChunks(document, chunk_ids) ==
    IF Truthy(chunk_ids)
    THEN FilterChunks(document.chunks, chunk_ids.ids)
    ELSE document.chunks

\* GenerateTTSResponse(total_chunks=len(chunks), completed_chunks=0,
\*                     status="processing", results=[])
NewResponse(chunks) ==
    [total_chunks |-> Len(chunks), completed_chunks |-> 0,
     status |-> "processing", results |-> <<>>]

\* ------------------------------------------------ markdown_parser.py
\* Text is a sequence of one-character strings.  The characters of the
\* model: a letter, the full stop, the Devanagari full stop, the two
\* whitespace characters a block can hold, the backslash, and the heading,
\* list, quote, emphasis, link, image and code markers.
Letter == "a"

\* U+0060 GRAVE ACCENT, the backtick of inline code and of code fences
Backtick == "U+0060"

\* U+0964 DEVANAGARI DANDA, the purna viram that ends a Hindi sentence
Danda == "U+0964"

\* the three characters the source file holds in the sentence pattern where
\* the purna viram is meant: U+0440, U+0435, U+0434 (Cyrillic er, ie, de)
CyrillicEr == "U+0440"
CyrillicIe == "U+0435"
CyrillicDe == "U+0434"

\* the character class of the look-behind of line 379
Terminators == {".", "!", "?", CyrillicEr, CyrillicIe, CyrillicDe}

Whitespace == {" ", "\n"}
Digits == {"0", "1", "2", "3", "4", "5", "6", "7", "8", "9"}
BulletMarkers == {"*", "-", "+"}

IsWs(c) == c \in Whitespace

\* s[k], or the empty string past either end
At(s, k) == IF k \in 1..Len(s) THEN s[k] ELSE ""

\* the first index >= i of a character of stop (Len(s) + 1 when there is none)
RunEnd(s, i, stop) ==
    LET hit == {k \in i..Len(s) : s[k] \in stop}
    IN IF hit = {} THEN Len(s) + 1 ELSE CHOOSE k \in hit : \A m \in hit : k <= m

\* a text of n letters
Letters(n) == [k \in 1..n |-> Letter]

\* s[a..b], empty when a > b
Slice(s, a, b) == IF a > b THEN <<>> ELSE SubSeq(s, a, b)

\* the first index >= i of a character that is not whitespace (Len(s) + 1 when
\* there is none)
SkipWs(s, i) ==
    LET rest == {k \in i..Len(s) : ~IsWs(s[k])}
    IN IF rest = {} THEN Len(s) + 1 ELSE CHOOSE k \in rest : \A m \in rest : k <= m

\* the last index of the line that position i lies on
LineEnd(s, i) ==
    LET nl == {k \in i..Len(s) : s[k] = "\n"}
    IN IF nl = {} THEN Len(s) ELSE (CHOOSE k \in nl : \A m \in nl : k <= m) - 1

\* str.strip()
Strip(s) ==
    LET keep == {k \in 1..Len(s) : ~IsWs(s[k])}
    IN IF keep = {} THEN <<>>
       ELSE Slice(s, CHOOSE k \in keep : \A m \in keep : k <= m,
                     CHOOSE k \in keep : \A m \in keep : k >= m)

\* re.sub(r'\s+', ' ', text): every whitespace run becomes one space
RECURSIVE CollapseWs(_)
CollapseWs(s) ==
    IF s = <<>> THEN <<>>
    ELSE IF IsWs(s[1]) THEN <<" ">> \o CollapseWs(Slice(s, SkipWs(s, 1), Len(s)))
    ELSE <<s[1]>> \o CollapseWs(Tail(s))

\* text.replace('\\', '')
RemoveBackslashes(s) == SelectSeq(s, LAMBDA c : c # "\\")

\* patterns['bold'].sub(r'\1', text): \*\*([^*]+)\*\* from position i on
RECURSIVE SubBold(_, _)
SubBold(s, i) ==
    IF i > Len(s) THEN <<>>
    ELSE LET e == RunEnd(s, i + 2, {"*"})
         IN IF /\ At(s, i) = "*" /\ At(s, i + 1) = "*"
               /\ e > i + 2
               /\ At(s, e) = "*" /\ At(s, e + 1) = "*"
            THEN Slice(s, i + 2, e - 1) \o SubBold(s, e + 2)
            ELSE <<s[i]>> \o SubBold(s, i + 1)

\* patterns['italic'].sub(r'\1', text): \*([^*]+)\*
RECURSIVE SubItalic(_, _)
SubItalic(s, i) ==
    IF i > Len(s) THEN <<>>
    ELSE LET e == RunEnd(s, i + 1, {"*"})
         IN IF At(s, i) = "*" /\ e > i + 1 /\ At(s, e) = "*"
            THEN Slice(s, i + 1, e - 1) \o SubItalic(s, e + 1)
            ELSE <<s[i]>> \o SubItalic(s, i + 1)

\* patterns['link'].sub(r'\1', text): \[([^\]]+)\]\([^)]+\)
RECURSIVE SubLink(_, _)
SubLink(s, i) ==
    IF i > Len(s) THEN <<>>
    ELSE LET e == RunEnd(s, i + 1, {"]"})
             f == RunEnd(s, e + 2, {")"})
         IN IF /\ At(s, i) = "[" /\ e > i + 1
               /\ At(s, e) = "]" /\ At(s, e + 1) = "("
               /\ f > e + 2 /\ At(s, f) = ")"
            THEN Slice(s, i + 1, e - 1) \o SubLink(s, f + 1)
            ELSE <<s[i]>> \o SubLink(s, i + 1)

\* patterns['image'].sub(alt or '', text): !\[([^\]]*)\]\([^)]+\)
RECURSIVE SubImage(_, _)
SubImage(s, i) ==
    IF i > Len(s) THEN <<>>
    ELSE LET e == RunEnd(s, i + 2, {"]"})
             f == RunEnd(s, e + 2, {")"})
         IN IF /\ At(s, i) = "!" /\ At(s, i + 1) = "["
               /\ At(s, e) = "]" /\ At(s, e + 1) = "("
               /\ f > e + 2 /\ At(s, f) = ")"
            THEN Slice(s, i + 2, e - 1) \o SubImage(s, f + 1)
            ELSE <<s[i]>> \o SubImage(s, i + 1)

\* patterns['inline_code'].sub(m.group(0)[1:-1], text): `[^`]+`
RECURSIVE SubInlineCode(_, _)
SubInlineCode(s, i) ==
    IF i > Len(s) THEN <<>>
    ELSE LET e == RunEnd(s, i + 1, {Backtick})
         IN IF At(s, i) = Backtick /\ e > i + 1 /\ At(s, e) = Backtick
            THEN Slice(s, i + 1, e - 1) \o SubInlineCode(s, e + 1)
            ELSE <<s[i]>> \o SubInlineCode(s, i + 1)

\* patterns['horizontal_rule'].sub('', text): a line of three or more dashes,
\* asterisks or underscores is emptied
IsRuleLine(s, i) ==
    LET e == LineEnd(s, i)
    IN e - i + 1 >= 3 /\ \E c \in {"-", "*", "_"} : \A k \in i..e : s[k] = c

RECURSIVE RemoveRules(_, _)
RemoveRules(s, i) ==
    IF i > Len(s) THEN <<>>
    ELSE LET e == LineEnd(s, i)
             line == IF IsRuleLine(s, i) THEN <<>> ELSE Slice(s, i, e)
         IN IF e >= Len(s) THEN line
            ELSE line \o <<"\n">> \o RemoveRules(s, e + 2)

\* lines 395-407: bold, italic, link, image, inline code, in that order
Unmark(text) ==
    SubInlineCode(SubImage(SubLink(SubItalic(SubBold(text, 1), 1), 1), 1), 1)

\* _clean_for_tts: the substitutions in the order of the code (markers,
\* rules, whitespace, backslashes, strip)
CleanForTts(text) ==
    Strip(RemoveBackslashes(CollapseWs(RemoveRules(Unmark(text), 1))))

\* _split_into_sentences: re.split(pattern, text), the look-behind of the
\* pattern holding the characters of Terminators; the pieces stripped and the
\* empty ones dropped
RECURSIVE SplitAt(_, _, _)
SplitAt(s, from, i) ==
    IF i > Len(s) THEN <<Slice(s, from, Len(s))>>
    ELSE IF IsWs(s[i]) /\ i > 1 /\ s[i - 1] \in Terminators
         THEN <<Slice(s, from, i - 1)>> \o SplitAt(s, SkipWs(s, i), SkipWs(s, i))
         ELSE SplitAt(s, from, i + 1)

SplitIntoSentences(text) ==
    LET pieces == SplitAt(text, 1, 1)
        stripped == [k \in 1..Len(pieces) |-> Strip(pieces[k])]
    IN SelectSeq(stripped, LAMBDA p : p # <<>>)

\* ContentChunk (raw_text is not modelled)
ContentChunk(id, type, text) ==
    [id |-> id, type |-> type, text |-> text, char_count |-> Len(text),
     pause_after_ms |-> PauseAfterMs(type),
     loudness_boost |-> LoudnessBoost(type)]

\* the long sentence kept in one piece
HardSplit_Unsliced(sentence, max_chunk_size) == <<sentence>>

\* sentence[i:i + max_chunk_size] for i in range(0, len(sentence), max_chunk_size)
\* (a negative step gives an empty range; a step of 0 raises, see RangeRaises)
RECURSIVE HardSplit(_, _)
HardSplit(sentence, max_chunk_size) ==
    IF sentence = <<>> \/ max_chunk_size <= 0 THEN <<>>
    ELSE IF Len(sentence) <= max_chunk_size THEN <<sentence>>
    ELSE <<Slice(sentence, 1, max_chunk_size)>>
         \o HardSplit(Slice(sentence, max_chunk_size + 1, Len(sentence)), max_chunk_size)

\* the flush of the running buffer: if current_chunk: chunks.append(current_chunk.strip())
Flush(texts, current_chunk) ==
    IF current_chunk # <<>> THEN Append(texts, Strip(current_chunk)) ELSE texts

\* the sentence loop of _create_paragraph_chunks (lines 301-364): texts are the
\* chunk texts appended so far, current_chunk the running buffer
RECURSIVE PackSentences(_, _, _, _, _)
PackSentences(sentences, k, current_chunk, texts, max_chunk_size) ==
    IF k > Len(sentences)
    THEN IF Strip(current_chunk) # <<>> THEN Append(texts, Strip(current_chunk)) ELSE texts
    ELSE LET sentence == Strip(sentences[k])
             test_chunk == Strip(current_chunk \o <<" ">> \o sentence)
         IN IF sentence = <<>>
            THEN PackSentences(sentences, k + 1, current_chunk, texts, max_chunk_size)
            ELSE IF Len(sentence) > max_chunk_size
            THEN PackSentences(sentences, k + 1, <<>>,
                     Flush(texts, current_chunk) \o HardSplit(sentence, max_chunk_size),
                     max_chunk_size)
            ELSE IF Len(test_chunk) > max_chunk_size
            THEN PackSentences(sentences, k + 1, sentence,
                     Flush(texts, current_chunk), max_chunk_size)
            ELSE PackSentences(sentences, k + 1, test_chunk, texts, max_chunk_size)

\* the split of a long paragraph with no size check on the first chunk
ParagraphTexts_Unsplit(text, max_chunk_size) == <<text>>

\* the texts of the chunks _create_paragraph_chunks makes of text
ParagraphTexts(text, max_chunk_size) ==
    IF Len(text) <= max_chunk_size THEN <<text>>
    ELSE PackSentences(SplitIntoSentences(text), 1, <<>>, <<>>, max_chunk_size)

\* _create_paragraph_chunks(start_id, text, raw_text)
CreateParagraphChunks(start_id, text, max_chunk_size) ==
    LET texts == ParagraphTexts(text, max_chunk_size)
    IN [k \in 1..Len(texts) |-> ContentChunk(start_id + k - 1, "paragraph", texts[k])]

\* ---- the patterns, matched on a block or a line (re.MULTILINE)
\* positions where ^ matches
LineStarts(s) == {i \in 1..Len(s) : i = 1 \/ s[i - 1] = "\n"}

\* marker \s+ (.+)$ with the marker ending at position m: the group, or <<>>
\* when there is no match (a group is never empty)
AfterMarker(s, m) ==
    IF m + 1 > Len(s) \/ ~IsWs(s[m + 1]) THEN <<>>
    ELSE LET g == SkipWs(s, m + 1)
         IN IF g <= Len(s) THEN Slice(s, g, LineEnd(s, g))
            ELSE \* \s+ gives its last blank back to (.+)
                 IF \E k \in (m + 2)..Len(s) : s[k] = " " THEN <<" ">> ELSE <<>>

\* patterns['h1'|'h2'|'h3'].match(block): level hashes, then the group
HeadingGroup(block, level) ==
    IF Len(block) >= level /\ \A k \in 1..level : block[k] = "#"
    THEN AfterMarker(block, level) ELSE <<>>

\* patterns['bullet'] at position i
BulletGroup(s, i) ==
    IF i <= Len(s) /\ s[i] \in BulletMarkers THEN AfterMarker(s, i) ELSE <<>>

\* patterns['numbered'] at position i: \d+ \. \s+ (.+)
NumberedGroup(s, i) ==
    LET nd == {k \in i..Len(s) : ~(s[k] \in Digits)}
        d == IF nd = {} THEN Len(s) + 1 ELSE CHOOSE k \in nd : \A q \in nd : k <= q
    IN IF d > i /\ d <= Len(s) /\ s[d] = "." THEN AfterMarker(s, d) ELSE <<>>

\* patterns['blockquote'] at position i
QuoteGroup(s, i) ==
    IF i <= Len(s) /\ s[i] = ">" THEN AfterMarker(s, i) ELSE <<>>

\* block.split('\n')
RECURSIVE SplitLines(_, _)
SplitLines(s, i) ==
    IF i > Len(s) THEN IF i = Len(s) + 1 THEN <<<<>>>> ELSE <<>>
    ELSE LET e == LineEnd(s, i)
         IN <<Slice(s, i, e)>> \o (IF e >= Len(s) THEN <<>> ELSE SplitLines(s, e + 2))

\* lines 187-205: one bullet chunk per line that matches bullet or numbered
RECURSIVE BulletChunks(_, _, _)
BulletChunks(lines, k, current_id) ==
    IF k > Len(lines) THEN <<>>
    ELSE LET line == Strip(lines[k])
             group == IF BulletGroup(line, 1) # <<>> THEN BulletGroup(line, 1)
                      ELSE NumberedGroup(line, 1)
         IN IF line = <<>> \/ group = <<>>
            THEN BulletChunks(lines, k + 1, current_id)
            ELSE <<ContentChunk(current_id, "bullet", CleanForTts(group))>>
                 \o BulletChunks(lines, k + 1, current_id + 1)

\* lines 210-213: the quote lines joined by one space, each without its marker
RECURSIVE QuoteText(_, _)
QuoteText(lines, k) ==
    IF k > Len(lines) THEN <<>>
    ELSE IF Strip(lines[k]) = <<>> THEN QuoteText(lines, k + 1)
    ELSE LET piece == IF QuoteGroup(lines[k], 1) # <<>>
                      THEN QuoteGroup(lines[k], 1) ELSE lines[k]
             rest == QuoteText(lines, k + 1)
             last == \A q \in (k + 1)..Len(lines) : Strip(lines[q]) = <<>>
         IN IF last THEN piece ELSE piece \o <<" ">> \o rest

\* _process_block(block, start_id)
ProcessBlock(block, start_id, max_chunk_size) ==
    IF HeadingGroup(block, 1) # <<>>
    THEN <<ContentChunk(start_id, "h1", CleanForTts(HeadingGroup(block, 1)))>>
    ELSE IF HeadingGroup(block, 2) # <<>>
    THEN <<ContentChunk(start_id, "h2", CleanForTts(HeadingGroup(block, 2)))>>
    ELSE IF HeadingGroup(block, 3) # <<>>
    THEN <<ContentChunk(start_id, "h3", CleanForTts(HeadingGroup(block, 3)))>>
    ELSE IF \E i \in LineStarts(block) :
                BulletGroup(block, i) # <<>> \/ NumberedGroup(block, i) # <<>>
    THEN BulletChunks(SplitLines(block, 1), 1, start_id)
    ELSE IF QuoteGroup(block, 1) # <<>>
    THEN CreateParagraphChunks(start_id,
             CleanForTts(QuoteText(SplitLines(block, 1), 1)), max_chunk_size)
    ELSE CreateParagraphChunks(start_id, CleanForTts(block), max_chunk_size)

\* the chunk counter advanced once per block instead of once per chunk
AdvanceId_PerBlock(chunk_id, block_chunks) == chunk_id + 1

\* lines 161-163: chunk_id += 1 for every chunk appended
AdvanceId(chunk_id, block_chunks) == chunk_id + Len(block_chunks)

\* range(0, len(sentence), max_chunk_size) of line 322:
\* ValueError("range() arg 3 must not be zero")
RangeRaises(step) == step = 0

\* _create_paragraph_chunks raises: the text is longer than max_chunk_size
\* and the hard split of a sentence is reached with a step that range rejects
ParagraphRaises(text, max_chunk_size) ==
    /\ Len(text) > max_chunk_size
    /\ \E k \in 1..Len(SplitIntoSentences(text)) :
          /\ Len(SplitIntoSentences(text)[k]) > max_chunk_size
          /\ RangeRaises(max_chunk_size)

\* _process_block raises: only the two paths that end in
\* _create_paragraph_chunks can
BlockRaises(block, max_chunk_size) ==
    IF \E level \in 1..3 : HeadingGroup(block, level) # <<>> THEN FALSE
    ELSE IF \E i \in LineStarts(block) :
                BulletGroup(block, i) # <<>> \/ NumberedGroup(block, i) # <<>>
    THEN FALSE
    ELSE IF QuoteGroup(block, 1) # <<>>
    THEN ParagraphRaises(CleanForTts(QuoteText(SplitLines(block, 1), 1)), max_chunk_size)
    ELSE ParagraphRaises(CleanForTts(block), max_chunk_size)

\* the replacement text of line 148
CodeBlockSkipped ==
    <<"[", "C", "o", "d", "e", " ", "b", "l", "o", "c", "k", " ",
      "s", "k", "i", "p", "p", "e", "d", "]">>

\* three backticks at position i
IsFence(s, i) == At(s, i) = Backtick /\ At(s, i + 1) = Backtick /\ At(s, i + 2) = Backtick

\* patterns['code_block'].sub('[Code block skipped]', content):
\* ```[\s\S]*?``` ends at the nearest closing fence
RECURSIVE SubCodeBlock(_, _)
SubCodeBlock(s, i) ==
    IF i > Len(s) THEN <<>>
    ELSE LET close == {k \in (i + 3)..Len(s) : IsFence(s, k)}
         IN IF IsFence(s, i) /\ close # {}
            THEN CodeBlockSkipped
                 \o SubCodeBlock(s, (CHOOSE k \in close : \A m \in close : k <= m) + 3)
            ELSE <<s[i]>> \o SubCodeBlock(s, i + 1)

\* re.split(r'\n\s*\n', content): a separator starts at a newline and runs
\* to the last newline of the whitespace that follows it
RECURSIVE SplitBlocks(_, _, _)
SplitBlocks(s, from, i) ==
    IF i > Len(s) THEN <<Slice(s, from, Len(s))>>
    ELSE LET nl == {k \in (i + 1)..(SkipWs(s, i + 1) - 1) : s[k] = "\n"}
         IN IF s[i] = "\n" /\ nl # {}
            THEN LET q == CHOOSE k \in nl : \A m \in nl : k >= m
                 IN <<Slice(s, from, i - 1)>> \o SplitBlocks(s, q + 1, q + 1)
            ELSE SplitBlocks(s, from, i + 1)

\* the blocks of line 151
BlocksOf(content) == SplitBlocks(SubCodeBlock(content, 1), 1, 1)

\* lines 153-163: each block is stripped and skipped when empty
RECURSIVE ParseBlocks(_, _, _, _)
ParseBlocks(blocks, k, chunk_id, max_chunk_size) ==
    IF k > Len(blocks) THEN <<>>
    ELSE LET block == Strip(blocks[k])
         IN IF block = <<>>
            THEN ParseBlocks(blocks, k + 1, chunk_id, max_chunk_size)
            ELSE LET block_chunks == ProcessBlock(block, chunk_id, max_chunk_size)
                 IN block_chunks \o ParseBlocks(blocks, k + 1,
                        AdvanceId(chunk_id, block_chunks), max_chunk_size)

\* _parse_content(content) returns this list, unless it raises
ParseContent(content, max_chunk_size) ==
    ParseBlocks(BlocksOf(content), 1, 0, max_chunk_size)

\* _parse_content(content) raises
ParseContentRaises(content, max_chunk_size) ==
    \E k \in 1..Len(BlocksOf(content)) :
        /\ Strip(BlocksOf(content)[k]) # <<>>
        /\ BlockRaises(Strip(BlocksOf(content)[k]), max_chunk_size)

\* a markdown text made of the given blocks, a blank line between two blocks
RECURSIVE JoinBlocks(_)
JoinBlocks(blocks) ==
    IF blocks = <<>> THEN <<>>
    ELSE IF Len(blocks) = 1 THEN blocks[1]
    ELSE blocks[1] \o <<"\n", "\n">> \o JoinBlocks(Tail(blocks))

\* ------------------------------------------------------- remote service
\* The credential values a deployment may hold (config.py: default "")
ApiKeys == {"", "your-api-key-here", "sk-live"}

\* is_configured treating the placeholder key as a real one
IsConfigured_NoPlaceholder(key) == key # ""

\* TTSService.is_configured
IsConfigured(key) == key # "" /\ key # "your-api-key-here"

\* What one POST to the provider can end in.
\*   kind "2xx":  raise_for_status passes; body is the shape of the payload
\*   kind "status": raise_for_status raises HTTPStatusError (non-2xx)
\*   kind "transport": client.post raises (timeout, connection error);
\*                     msg is str(e), which is empty for some exceptions
Bodies2xx == {"audio", "badpad", "nokey", "emptystr", "emptylist", "notjson"}

TransportMsgs == {"", "All connection attempts failed"}

RemoteOutcomes ==
    { [kind |-> "2xx", body |-> b, size |-> RespLen, msg |-> ""] : b \in Bodies2xx }
    \cup { [kind |-> "status", body |-> "error", size |-> s, msg |-> ""] : s \in {0, RespLen} }
    \cup { [kind |-> "transport", body |-> "", size |-> 0, msg |-> m] : m \in TransportMsgs }

\* The log entry of an attempt that issued no request
NoCall == [kind |-> "nocall", body |-> "", size |-> 0, msg |-> ""]

\* The log entry of a request that is still in flight
InFlight == [kind |-> "inflight", body |-> "", size |-> 0, msg |-> ""]

\* response.json(): raises for a body that is not JSON
JsonParses(body) == body # "notjson"

\* data.get("audios", [None]) for each body shape
Audios(body) ==
    CASE body = "audio" -> <<"QUJD">>
      [] body = "badpad" -> <<"QUJ">>
      [] body = "emptystr" -> <<"">>
      [] body = "emptylist" -> <<>>
      [] OTHER -> <<None>>

\* base64.b64decode: raises binascii.Error on incorrect padding
B64Decodable(s) == s = "QUJD"

B64Decode(s) == IF s = "QUJD" THEN <<65, 66, 67>> ELSE <<>>

\* len(json.dumps(payload).encode('utf-8')): the fixed keys plus the text
PayloadBytes(chunk) == 120 + chunk.char_count

\* ----------------------------------------- _process_chunk_with_stats
\* chunk_type.startswith('h'): of the ChunkType values (h1, h2, h3, paragraph,
\* bullet, code, blockquote) the three heading types
StartsWithH(type) == type \in {"h1", "h2", "h3"}

Max(a, b) == IF a >= b THEN a ELSE b

\* lines 187-191, the pace put in the payload, in hundredths:
\* pace = settings.pace; for a heading pace = max(0.9, settings.pace - 0.1)
PaceSent(type, pace) == IF StartsWithH(type) THEN Max(90, pace - 10) ELSE pace

TTSChunkResult(chunk_id, success, audio_base64, duration_ms, error) ==
    [chunk_id |-> chunk_id, success |-> success, audio_base64 |-> audio_base64,
     duration_ms |-> duration_ms, error |-> error]

APICallStats(chunk_id, characters_sent, bytes_sent, bytes_received, success, error) ==
    [chunk_id |-> chunk_id, characters_sent |-> characters_sent,
     bytes_sent |-> bytes_sent, bytes_received |-> bytes_received,
     success |-> success, error |-> error]

Returned(result, stats) == [raised |-> FALSE, result |-> result, stats |-> stats]

\* lines 167-183: the short circuit of an unconfigured adapter
NotConfiguredPair(chunk) ==
    Returned(
        TTSChunkResult(chunk.id, FALSE, None, -1, "Sarvam AI API key not configured"),
        APICallStats(chunk.id, chunk.char_count, 0, 0, FALSE, "API key not configured"))

\* The no-audio return with the call stat marked successful
NoAudioPair_StatOk(chunk, o) ==
    Returned(
        TTSChunkResult(chunk.id, FALSE, None, -1, "No audio in response"),
        APICallStats(chunk.id, chunk.char_count, PayloadBytes(chunk), o.size,
                     TRUE, "No audio in response"))

\* lines 227-243: 2xx whose first audio is None or ""
NoAudioPair(chunk, o) ==
    Returned(
        TTSChunkResult(chunk.id, FALSE, None, -1, "No audio in response"),
        APICallStats(chunk.id, chunk.char_count, PayloadBytes(chunk), o.size,
                     FALSE, "No audio in response"))

\* lines 245-265: success
SuccessPair(chunk, o, audio_base64) ==
    Returned(
        TTSChunkResult(chunk.id, TRUE, audio_base64,
                       Len(B64Decode(audio_base64)) \div 96, None),
        APICallStats(chunk.id, chunk.char_count, PayloadBytes(chunk), o.size,
                     TRUE, None))

\* lines 267-285: except httpx.HTTPStatusError
StatusErrorPair(chunk, o) ==
    Returned(
        TTSChunkResult(chunk.id, FALSE, None, -1, "API error: 500 - error"),
        APICallStats(chunk.id, chunk.char_count, PayloadBytes(chunk), o.size,
                     FALSE, "API error: 500 - error"))

\* lines 286-303: except Exception, error = str(e), bytes_received = 0
ExceptionPair(chunk, msg) ==
    Returned(
        TTSChunkResult(chunk.id, FALSE, None, -1, msg),
        APICallStats(chunk.id, chunk.char_count, PayloadBytes(chunk), 0, FALSE, msg))

\* lines 211-303: the request was sent and ended in outcome o
HandleOutcome(chunk, o) ==
    IF o.kind = "transport" THEN ExceptionPair(chunk, o.msg)
    ELSE IF o.kind = "status" THEN StatusErrorPair(chunk, o)
    ELSE IF ~JsonParses(o.body) THEN ExceptionPair(chunk, "Expecting value: line 1 column 1 (char 0)")
    ELSE IF Len(Audios(o.body)) = 0 THEN ExceptionPair(chunk, "list index out of range")
    ELSE LET audio_base64 == Audios(o.body)[1] IN
         IF audio_base64 = None \/ audio_base64 = "" THEN NoAudioPair(chunk, o)
         ELSE IF ~B64Decodable(audio_base64) THEN ExceptionPair(chunk, "Incorrect padding")
         ELSE SuccessPair(chunk, o, audio_base64)

\* _process_chunk_with_stats(client, chunk, settings) under credential key,
\* the request (when one is sent) ending in outcome o
ProcessChunkWithStats(key, chunk, o) ==
    IF ~IsConfigured(key) THEN NotConfiguredPair(chunk) ELSE HandleOutcome(chunk, o)

\* ------------------------------------------------------------ the state
VARIABLES
    api_key,        \* TTSService.api_key
    pending,        \* generate requests not yet started
    pc,             \* where each job's generator is suspended
    request,        \* the arguments of each generate call
    chunks,         \* generate's local: the resolved chunk list
    idx,            \* generate's local: enumerate index + 1 of the current chunk
    response,       \* the GenerateTTSResponse object of each job
    job_status,     \* keys of TTSService._job_status (values alias response)
    audio_cache,    \* TTSService._audio_cache
    api_stats,      \* TTSService._api_stats
    emitted,        \* history: the snapshots each consumer received
    calllog,        \* history: every invocation of _process_chunk_with_stats,
                    \*          in invocation order, with what its request ended in
    asked,          \* history: the snapshots each consumer asked for after the first
    reply,          \* what the last export_audio call wrote and returned or raised
    evicted,        \* history: the job ids cleanup_job was called with
    md,             \* the markdown content and max_chunk_size given to the parser
    parsed,         \* the chunk list _parse_content returned for md
    call,           \* the chunk type and settings.pace of a synthesis call
    payload         \* the pace in the payload built for call

vars == <<api_key, pending, pc, request, chunks, idx, response, job_status,
          audio_cache, api_stats, emitted, calllog, asked, reply, evicted, md, parsed,
          call, payload>>

chunkerVars == <<md, parsed>>

storeVars == <<reply, evicted>>

adapterVars == <<call, payload>>

\* What the consumer sees of the yielded response at the time of the yield
Snapshot(resp, calls) ==
    [status |-> resp.status, completed_chunks |-> resp.completed_chunks,
     results |-> Len(resp.results), calls |-> calls]

\* ----------------------------------------------------- generate, line 80
\* one id shared by every generate call
JobId_Fixed(j) == 1

\* job_id = str(uuid.uuid4()): the id of the j-th generate call.  uuid4 draws
\* 122 random bits; the model takes the ids of different calls as different.
JobId(j) == j

\* ------------------------------------------------------ generate, lines 107-147
\* completed_chunks counted in the try body and once more on the way out
Bump_Twice(resp) == [resp EXCEPT !.completed_chunks = @ + 2]

\* response.completed_chunks += 1
Bump(resp) == [resp EXCEPT !.completed_chunks = @ + 1]

\* every result cached, failed ones too
ShouldCache_Always(result) == TRUE

\* if result.success and result.audio_base64
ShouldCache(result) ==
    result.success /\ result.audio_base64 # None /\ result.audio_base64 # ""

\* lines 129-147: the except branch of the loop body.  The KeyError of a
\* missing _api_stats entry is raised inside the handler and leaves the
\* generator.
ExceptBody(job_id, resp, stats, cache, chunk, msg) ==
    LET r == [resp EXCEPT !.results =
                 Append(@, TTSChunkResult(chunk.id, FALSE, None, -1, msg))]
    IN IF job_id \notin DOMAIN stats
       THEN [response |-> r, api_stats |-> stats, audio_cache |-> cache,
             end |-> "crashed"]
       ELSE [response |-> Bump(r),
             api_stats |-> [stats EXCEPT ![job_id] =
                 Append(@, APICallStats(chunk.id, chunk.char_count, 0, 0, FALSE, msg))],
             audio_cache |-> cache, end |-> "yield_exc"]

\* lines 109-123: the try body from the return of _process_chunk_with_stats
\* (pr) to the yield, falling into the except branch on an exception.
TryBody(job_id, resp, stats, cache, chunk, pr) ==
    LET r1 == IF pr.raised THEN resp
              ELSE [resp EXCEPT !.results = Append(@, pr.result)]
        statsKeyError == ~pr.raised /\ job_id \notin DOMAIN stats
        stats1 == IF pr.raised \/ statsKeyError THEN stats
                  ELSE [stats EXCEPT ![job_id] = Append(@, pr.stats)]
        caches == ~pr.raised /\ ~statsKeyError /\ ShouldCache(pr.result)
        cacheKeyError == caches /\ job_id \notin DOMAIN cache
        cache1 == IF caches /\ ~cacheKeyError
                  THEN [cache EXCEPT ![job_id] =
                          Append(@, <<chunk.id, B64Decode(pr.result.audio_base64)>>)]
                  ELSE cache
    IN IF pr.raised \/ statsKeyError \/ cacheKeyError
       THEN ExceptBody(job_id, r1, stats1, cache1, chunk,
                       IF pr.raised THEN pr.error ELSE "KeyError")
       ELSE [response |-> Bump(r1), api_stats |-> stats1, audio_cache |-> cache1,
             end |-> "yield"]

\* the loop without its pacing delay
NeedsDelay_Never(k, n) == FALSE

\* if i < len(chunks) - 1: await asyncio.sleep(0.2)     (idx = i + 1)
NeedsDelay(k, n) == k < n

\* the completion step reporting failure when a chunk failed
MarkCompleted_Failed(resp) ==
    [resp EXCEPT !.status =
        IF \E k \in 1..Len(resp.results) : ~resp.results[k].success
        THEN "failed" ELSE "completed"]

\* the completion step that leaves the status as it was
MarkCompleted_Forgotten(resp) == resp

\* line 150: response.status = "completed"
MarkCompleted(resp) == [resp EXCEPT !.status = "completed"]

\* ----------------------------------------------------------------- Init
\* no export_audio call was made yet
NoReply == [job_id |-> 0, error |-> None, written |-> <<>>, duration_ms |-> 0]

\* the parser was given nothing yet
NoContent == [blocks |-> <<>>, max_chunk_size |-> 0]

\* title: Optional[str]
NoTitle == [given |-> FALSE, text |-> <<>>]

\* no payload was built yet
NoCallArgs == [type |-> "paragraph", pace |-> 110]

NoPayload == [built |-> FALSE, pace |-> 0]

NotParsed == [done |-> FALSE, raised |-> FALSE, chunks |-> <<>>, title |-> NoTitle,
              total_chunks |-> 0, total_characters |-> 0]

Init ==
    /\ api_key \in ApiKeys
    /\ pending = {1}
    /\ pc = [j \in Jobs |-> "idle"]
    /\ request = [j \in Jobs |-> [document |-> [chunks |-> <<>>], chunk_ids |-> NoChunkIds]]
    /\ chunks = [j \in Jobs |-> <<>>]
    /\ idx = [j \in Jobs |-> 0]
    /\ response = [j \in Jobs |-> NewResponse(<<>>)]
    /\ job_status = {}
    /\ audio_cache = <<>>
    /\ api_stats = <<>>
    /\ emitted = [j \in Jobs |-> <<>>]
    /\ calllog = [j \in Jobs |-> <<>>]
    /\ asked = [j \in Jobs |-> 0]
    /\ reply = NoReply
    /\ evicted = {}
    /\ md = NoContent
    /\ parsed = NotParsed
    /\ call = NoCallArgs
    /\ payload = NoPayload

\* -------------------------------------------------------------- actions
\* The loop going on to the pacing delay and the next call without the yield
Complete_Eager(j, k, log, pr) ==
    LET chunk == chunks[j][k]
        t == TryBody(JobId(j), response[j], api_stats, audio_cache, chunk, pr)
        eager == t.end = "yield" /\ k < Len(chunks[j])
    IN /\ response' = [response EXCEPT ![j] = t.response]
       /\ api_stats' = t.api_stats
       /\ audio_cache' = t.audio_cache
       /\ calllog' = [calllog EXCEPT ![j] = log]
       /\ idx' = [idx EXCEPT ![j] = k]
       /\ pc' = [pc EXCEPT ![j] = IF eager THEN "sleep" ELSE t.end]
       /\ emitted' = [emitted EXCEPT ![j] =
             IF t.end = "crashed" \/ eager THEN @
             ELSE Append(@, Snapshot(t.response, Len(log)))]

\* The part of a step that ends the processing of chunk k with the pair (or
\* exception) pr of the adapter; log is the call log with this invocation in.
Complete(j, k, log, pr) ==
    LET chunk == chunks[j][k]
        t == TryBody(JobId(j), response[j], api_stats, audio_cache, chunk, pr)
    IN /\ response' = [response EXCEPT ![j] = t.response]
       /\ api_stats' = t.api_stats
       /\ audio_cache' = t.audio_cache
       /\ calllog' = [calllog EXCEPT ![j] = log]
       /\ idx' = [idx EXCEPT ![j] = k]
       /\ pc' = [pc EXCEPT ![j] = t.end]
       /\ emitted' = [emitted EXCEPT ![j] =
             IF t.end = "crashed" THEN @
             ELSE Append(@, Snapshot(t.response, Len(log)))]

LogEntry(chunk, o, raised) == [chunk_id |-> chunk.id, outcome |-> o, raised |-> raised]

\* The loop body entered for chunk k: _process_chunk_with_stats returns at
\* once when the adapter is not configured, and suspends in client.post
\* otherwise.
RunChunk(j, k) ==
    LET chunk == chunks[j][k] IN
    IF ~IsConfigured(api_key)
    THEN LET pr == ProcessChunkWithStats(api_key, chunk, NoCall) IN
         /\ Complete(j, k, Append(calllog[j], LogEntry(chunk, NoCall, pr.raised)), pr)
         /\ UNCHANGED <<chunkerVars, adapterVars, storeVars, api_key, pending, request, chunks, job_status>>
    ELSE /\ pc' = [pc EXCEPT ![j] = "post"]
         /\ idx' = [idx EXCEPT ![j] = k]
         /\ calllog' = [calllog EXCEPT ![j] = Append(@, LogEntry(chunk, InFlight, FALSE))]
         /\ UNCHANGED <<chunkerVars, adapterVars, storeVars, api_key, pending, request, chunks, response, job_status,
                        audio_cache, api_stats, emitted>>

\* lines 149-155: the loop is over; mark completed, re-register, yield
EndLoop(j) ==
    LET r == MarkCompleted(response[j]) IN
    /\ response' = [response EXCEPT ![j] = r]
    /\ job_status' = job_status \cup {JobId(j)}
    /\ emitted' = [emitted EXCEPT ![j] = Append(@, Snapshot(r, Len(calllog[j])))]
    /\ pc' = [pc EXCEPT ![j] = "yield_final"]
    /\ UNCHANGED <<chunkerVars, adapterVars, storeVars, api_key, pending, request, chunks, idx, audio_cache, api_stats,
                   calllog>>

\* lines 80-103: the first __anext__ of the generator of
\* generate_tts_for_document(document, settings, chunk_ids), up to the first
\* yield
StartWith(j, document, chunk_ids) ==
    LET cs == SelectChunks(document, chunk_ids)
        r == NewResponse(cs)
    IN /\ pc[j] = "idle"
       /\ request' = [request EXCEPT ![j] =
               [document |-> document, chunk_ids |-> chunk_ids]]
       /\ chunks' = [chunks EXCEPT ![j] = cs]
       /\ response' = [response EXCEPT ![j] = r]
       /\ emitted' = [emitted EXCEPT ![j] = Append(@, Snapshot(r, 0))]
       /\ pending' = pending \ {j}
       /\ job_status' = job_status \cup {JobId(j)}
       /\ audio_cache' = (JobId(j) :> <<>>) @@ audio_cache
       /\ api_stats' = (JobId(j) :> <<>>) @@ api_stats
       /\ pc' = [pc EXCEPT ![j] = "yield_first"]
       /\ UNCHANGED <<chunkerVars, adapterVars, storeVars, api_key, idx, calllog, asked>>

\* a generate request with any document and any chunk_ids
Start(j) ==
    /\ j \in pending
    /\ \E document \in Documents, chunk_ids \in ChunkIdLists :
         StartWith(j, document, chunk_ids)

\* The consumer asks for the snapshot after the first one: the generator
\* resumes after line 103 and enters the loop.
ConsumeFirst(j) ==
    /\ pc[j] = "yield_first"
    /\ asked' = [asked EXCEPT ![j] = @ + 1]
    /\ IF Len(chunks[j]) = 0 THEN EndLoop(j) ELSE RunChunk(j, 1)

\* client.post returns or raises: the rest of _process_chunk_with_stats and
\* of the loop body up to the yield of line 123.
PostEnds(j, o) ==
    /\ LET chunk == chunks[j][idx[j]]
           pr == ProcessChunkWithStats(api_key, chunk, o)
       IN Complete(j, idx[j],
                   [calllog[j] EXCEPT ![Len(calllog[j])] = LogEntry(chunk, o, pr.raised)],
                   pr)
    /\ UNCHANGED <<chunkerVars, adapterVars, storeVars, api_key, pending, request, chunks, job_status,
                   asked>>

\* client.post of job j returns or raises, in any of the outcomes
PostReturns(j) ==
    /\ pc[j] = "post"
    /\ \E o \in RemoteOutcomes : PostEnds(j, o)

\* The consumer asks for the next snapshot after a chunk's snapshot: the
\* generator resumes after line 123 (pacing delay when another chunk follows,
\* else the end of the loop), or after line 147 (the next iteration without a
\* delay, else the end of the loop).
ConsumeNext(j) ==
    /\ pc[j] \in {"yield", "yield_exc"}
    /\ asked' = [asked EXCEPT ![j] = @ + 1]
    /\ IF pc[j] = "yield" /\ NeedsDelay(idx[j], Len(chunks[j]))
       THEN /\ pc' = [pc EXCEPT ![j] = "sleep"]
            /\ UNCHANGED <<chunkerVars, adapterVars, storeVars, api_key, pending, request, chunks, idx, response,
                           job_status, audio_cache, api_stats, emitted, calllog>>
       ELSE IF idx[j] < Len(chunks[j])
            THEN RunChunk(j, idx[j] + 1)
            ELSE EndLoop(j)

\* asyncio.sleep(0.2) is over: the next iteration starts
Wake(j) ==
    /\ pc[j] = "sleep"
    /\ UNCHANGED asked
    /\ RunChunk(j, idx[j] + 1)

\* The consumer asks once more after the final snapshot: the generator returns
Finish(j) ==
    /\ pc[j] = "yield_final"
    /\ asked' = [asked EXCEPT ![j] = @ + 1]
    /\ pc' = [pc EXCEPT ![j] = "done"]
    /\ UNCHANGED <<chunkerVars, adapterVars, storeVars, api_key, pending, request, chunks, idx, response, job_status,
                   audio_cache, api_stats, emitted, calllog>>

JobStep(j) ==
    \/ ConsumeFirst(j)
    \/ PostReturns(j)
    \/ ConsumeNext(j)
    \/ Wake(j)
    \/ Finish(j)

Next == \E j \in Jobs : Start(j) \/ JobStep(j)

Spec == Init /\ [][Next]_vars

\* The consumer keeps asking for snapshots, every request ends (the client
\* has a 60 s timeout) and every pacing sleep is over after 0.2 s.
FairSpec == Spec /\ \A j \in Jobs : WF_vars(JobStep(j))

\* ------------------------------------------ the queries and export_audio
\* A query that returns None has found = FALSE.
\* get_job_status(job_id): the registered response
GetJobStatus(registry, job_id) == [found |-> job_id \in registry]

\* get_audio_preview(job_id, chunk_id): the first cached fragment of the chunk
GetAudioPreview(cache, job_id, chunk_id) ==
    IF job_id \notin DOMAIN cache THEN [found |-> FALSE, audio |-> <<>>]
    ELSE LET hits == SelectSeq(cache[job_id], LAMBDA seg : seg[1] = chunk_id)
         IN IF hits = <<>> THEN [found |-> FALSE, audio |-> <<>>]
            ELSE [found |-> TRUE, audio |-> hits[1][2]]

RECURSIVE SumOf(_, _)
SumOf(seq, field) ==
    IF seq = <<>> THEN 0 ELSE seq[1][field] + SumOf(Tail(seq), field)

\* get_generation_summary(job_id): None, or the rollup of the call stats
GetGenerationSummary(stats, registry, job_id) ==
    IF job_id \notin DOMAIN stats THEN [found |-> FALSE]
    ELSE IF stats[job_id] = <<>> \/ job_id \notin registry THEN [found |-> FALSE]
    ELSE LET calls == stats[job_id] IN
         [found |-> TRUE,
          total_api_calls |-> Len(calls),
          successful_calls |-> Len(SelectSeq(calls, LAMBDA s : s.success)),
          failed_calls |-> Len(SelectSeq(calls, LAMBDA s : ~s.success)),
          total_characters |-> SumOf(calls, "characters_sent"),
          total_bytes_sent |-> SumOf(calls, "bytes_sent"),
          total_bytes_received |-> SumOf(calls, "bytes_received")]

\* sorted(audio_segments, key=lambda x: x[0]): stable, ascending chunk id
RECURSIVE SortSegments(_)
SortSegments(segs) ==
    IF segs = <<>> THEN <<>>
    ELSE LET rest == SortSegments(SubSeq(segs, 1, Len(segs) - 1))
             last == segs[Len(segs)]
             before == SelectSeq(rest, LAMBDA s : s[1] <= last[1])
             after == SelectSeq(rest, LAMBDA s : s[1] > last[1])
         IN before \o <<last>> \o after

\* chunk_lookup = {c.id: c for c in document.chunks}; chunk_lookup.get(chunk_id)
ChunkLookup(document, chunk_id) ==
    SelectSeq(document.chunks, LAMBDA c : c.id = chunk_id)

\* len(AudioSegment.from_wav(audio_bytes)): the milliseconds of a fragment
SegmentMs(audio_bytes) == Len(audio_bytes)

\* db_boost = 20 * (chunk.loudness_boost - 1.0), in dB (the boost in tenths)
GainDb(loudness_boost) == 2 * (loudness_boost - 10)

\* a gain applied to every fragment whose chunk is known
NeedsGain_Always(found) == found # <<>>

\* if chunk and chunk.loudness_boost > 1.0
NeedsGain(found) == found # <<>> /\ found[Len(found)].loudness_boost > 10

\* the silence appended whether or not the chunk asks for one
PauseOf_None(found) == 0

\* if chunk: pause_duration = chunk.pause_after_ms (0 when the chunk is unknown)
PauseOf(found) == IF found # <<>> THEN found[Len(found)].pause_after_ms ELSE 0

\* lines 420-443: what is appended to combined for the sorted fragments
RECURSIVE Combined(_, _)
Combined(sorted, document) ==
    IF sorted = <<>> THEN <<>>
    ELSE LET chunk_id == sorted[1][1]
             found == ChunkLookup(document, chunk_id)
             segment == [kind |-> "fragment", chunk_id |-> chunk_id,
                         gained |-> NeedsGain(found),
                         gain_db |-> IF NeedsGain(found)
                                     THEN GainDb(found[Len(found)].loudness_boost)
                                     ELSE 0,
                         ms |-> SegmentMs(sorted[1][2])]
             silence == IF PauseOf(found) > 0
                        THEN <<[kind |-> "silence", chunk_id |-> chunk_id,
                                gained |-> FALSE, gain_db |-> 0,
                                ms |-> PauseOf(found)]>>
                        ELSE <<>>
         IN <<segment>> \o silence \o Combined(Tail(sorted), document)

\* export_audio without the check for an empty fragment list
ExportAudio_NoEmptyCheck(cache, job_id, document) ==
    IF job_id \notin DOMAIN cache
    THEN [job_id |-> job_id, error |-> "Job not found", written |-> <<>>,
          duration_ms |-> 0]
    ELSE LET combined == Combined(SortSegments(cache[job_id]), document)
         IN [job_id |-> job_id, error |-> None, written |-> combined,
             duration_ms |-> SumOf(combined, "ms")]

\* export_audio(job_id, document): the failure raised, or the audio written
\* to the output file and its duration (len(combined))
ExportAudio(cache, job_id, document) ==
    IF job_id \notin DOMAIN cache
    THEN [job_id |-> job_id, error |-> "Job not found", written |-> <<>>,
          duration_ms |-> 0]
    ELSE IF cache[job_id] = <<>>
    THEN [job_id |-> job_id, error |-> "No audio segments to export",
          written |-> <<>>, duration_ms |-> 0]
    ELSE LET combined == Combined(SortSegments(cache[job_id]), document)
         IN [job_id |-> job_id, error |-> None, written |-> combined,
             duration_ms |-> SumOf(combined, "ms")]

\* ------------------------------------------------------- the service
\* Two generate requests served by one TTSService, with exports and
\* cleanup_job calls in between.  The documents are parser output for a few
\* markdown files; every request is for the whole document and ends in audio
\* or in an error status.
ServiceContents ==
    {<<<<"#", " ", Letter>>, Letters(2)>>,
     <<<<"#", "#", " ", Letter>>, <<"-", " ", Letter>>>>,
     <<<<"#", "#", "#", " ", Letter>>>>,
     <<>>}

ServiceDocuments ==
    { [chunks |-> ParseContent(JoinBlocks(c), 2000)] : c \in ServiceContents }

ServiceOutcomes ==
    {[kind |-> "2xx", body |-> "audio", size |-> RespLen, msg |-> ""],
     [kind |-> "status", body |-> "error", size |-> RespLen, msg |-> ""]}

ServiceInit ==
    /\ api_key = "sk-live"
    /\ pending = {1, 2}
    /\ pc = [j \in Jobs |-> "idle"]
    /\ request = [j \in Jobs |-> [document |-> [chunks |-> <<>>], chunk_ids |-> NoChunkIds]]
    /\ chunks = [j \in Jobs |-> <<>>]
    /\ idx = [j \in Jobs |-> 0]
    /\ response = [j \in Jobs |-> NewResponse(<<>>)]
    /\ job_status = {}
    /\ audio_cache = <<>>
    /\ api_stats = <<>>
    /\ emitted = [j \in Jobs |-> <<>>]
    /\ calllog = [j \in Jobs |-> <<>>]
    /\ asked = [j \in Jobs |-> 0]
    /\ reply = NoReply
    /\ evicted = {}
    /\ md = NoContent
    /\ parsed = NotParsed
    /\ call = NoCallArgs
    /\ payload = NoPayload

\* a generate request for a whole document
Generate(j) ==
    /\ j \in pending
    /\ \E document \in ServiceDocuments : StartWith(j, document, NoChunkIds)

\* the request of job j ends
Respond(j) ==
    /\ pc[j] = "post"
    /\ \E o \in ServiceOutcomes : PostEnds(j, o)

\* export_audio(job_id, document) with the document of that generate request
Export(j) ==
    /\ reply' = ExportAudio(audio_cache, JobId(j), request[j].document)
    /\ UNCHANGED <<chunkerVars, adapterVars, evicted, api_key, pending, pc, request, chunks, idx, response,
                   job_status, audio_cache, api_stats, emitted, calllog, asked>>

\* a function without the key k: dict.pop(k, None)
Pop(f, k) == [x \in DOMAIN f \ {k} |-> f[x]]

\* cleanup_job(job_id), called with an id that generate has handed out
CleanupJob(j) ==
    /\ pc[j] # "idle"
    /\ audio_cache' = Pop(audio_cache, JobId(j))
    /\ job_status' = job_status \ {JobId(j)}
    /\ api_stats' = Pop(api_stats, JobId(j))
    /\ evicted' = evicted \cup {JobId(j)}
    /\ UNCHANGED <<chunkerVars, adapterVars, reply, api_key, pending, pc, request, chunks, idx,
                   response, emitted, calllog, asked>>

ServiceStep(j) ==
    \/ Generate(j)
    \/ ConsumeFirst(j)
    \/ Respond(j)
    \/ ConsumeNext(j)
    \/ Wake(j)
    \/ Finish(j)
    \/ Export(j)
    \/ CleanupJob(j)

ServiceNext == \E j \in Jobs : ServiceStep(j)

ServiceSpec == ServiceInit /\ [][ServiceNext]_vars

\* ------------------------------------------------------------ the parser
\* Markdown given to the parser, as the blocks re.split(r'\n\s*\n', content)
\* cuts it into.  Free text: every string of up to MaxText characters.
TextChars == {Letter, ".", " ", "\\"}

FreeTexts == UNION { [1..n -> TextChars] : n \in 0..MaxText }

\* Lines that open with a marker, the text after it short or longer than any
\* max_chunk_size
Markers == {<<"#">>, <<"#", "#">>, <<"#", "#", "#">>, <<"#", "#", "#", "#">>,
            <<"-">>, <<"1", ".">>, <<">">>}

MarkedLines ==
    { m \o <<" ">> \o t : m \in Markers, t \in {Letters(1), Letters(MaxSize + 1)} }

\* Blocks of two lines: a marked or plain line, a bare marker or a rule first
TwoLineBlocks ==
    { a \o <<"\n">> \o b :
        a \in {<<"-", " ", Letter>>, <<"-">>, <<">", " ", Letter>>, <<"#">>,
               <<"-", "-", "-">>, <<Letter>>},
        b \in {<<"-", " ", Letter>>, <<Letter>>, <<"1", ".", " ", Letter>>} }

\* The blocks of longer documents
FewBlocks ==
    {<<"#", " ", Letter>>,
     <<"-", " ", Letter, "\n", "-", " ", Letter>>,
     <<"-", "\n", Letter>>,
     <<" ">>,
     Letters(2) \o <<".", " ">> \o Letters(2)}

\* Sentences that end in the purna viram, and text that holds a Cyrillic de
SentenceChars == {Letter, Danda, CyrillicDe, " "}

SentenceTexts == UNION { [1..n -> SentenceChars] : n \in 1..MaxText }

\* Blocks with a horizontal rule
RuleBlocks == {<<"-", "-", "-">>, <<"*", "*", "*">>, <<"-", "-", "-", "-">>,
               <<"#", " ", "-", "-", "-">>}

Contents ==
    { <<b>> : b \in FreeTexts \cup MarkedLines \cup TwoLineBlocks
                     \cup SentenceTexts \cup RuleBlocks }
    \cup UNION { [1..n -> FewBlocks] : n \in 2..MaxBlocks }

\* Blocks with emphasis, link, image and code syntax, balanced or not: up to
\* MaxTokens of these pieces in a row
MarkupTokens ==
    {<<Letter>>, <<"*">>, <<"*", "*">>, <<Backtick>>, <<Backtick, Backtick, Backtick>>,
     <<"[">>, <<"[", Letter, "]">>, <<"[", "]">>, <<"(", Letter, ")">>, <<"!">>}

RECURSIVE Concat(_)
Concat(ts) == IF ts = <<>> THEN <<>> ELSE ts[1] \o Concat(Tail(ts))

MarkupTexts ==
    { Concat(ts) : ts \in UNION { [1..n -> MarkupTokens] : n \in 1..MaxTokens } }

\* Two blocks with a code fence that opens in the first and closes in the second
FencedContents ==
    {<<<<Letter, " ", Backtick, Backtick, Backtick, Letter>>,
       <<Letter, Backtick, Backtick, Backtick, " ", Letter>>>>}

MarkupContents == { <<b>> : b \in MarkupTexts } \cup FencedContents

\* config.py: max_chunk_size, the size of create_parser()
DefaultChunkSize == 2000

\* create_parser(max_chunk_size): size = max_chunk_size or settings.max_chunk_size
CreateParser(max_chunk_size) ==
    IF max_chunk_size = 0 THEN DefaultChunkSize ELSE max_chunk_size

\* MarkdownParser(max_chunk_size): any int
ChunkSizes == (-1)..MaxSize

ChunkerInit ==
    /\ md \in { [blocks |-> c, max_chunk_size |-> m] : c \in Contents, m \in ChunkSizes }
             \cup { [blocks |-> c, max_chunk_size |-> CreateParser(0)] :
                      c \in MarkupContents }
    /\ parsed = NotParsed
    /\ api_key = ""
    /\ pending = {}
    /\ pc = [j \in Jobs |-> "idle"]
    /\ request = [j \in Jobs |-> [document |-> [chunks |-> <<>>], chunk_ids |-> NoChunkIds]]
    /\ chunks = [j \in Jobs |-> <<>>]
    /\ idx = [j \in Jobs |-> 0]
    /\ response = [j \in Jobs |-> NewResponse(<<>>)]
    /\ job_status = {}
    /\ audio_cache = <<>>
    /\ api_stats = <<>>
    /\ emitted = [j \in Jobs |-> <<>>]
    /\ calllog = [j \in Jobs |-> <<>>]
    /\ asked = [j \in Jobs |-> 0]
    /\ reply = NoReply
    /\ evicted = {}
    /\ call = NoCallArgs
    /\ payload = NoPayload

\* the title as the first chunk's text, whatever its type
Title_FirstChunk(chunk_list) ==
    IF chunk_list = <<>> THEN NoTitle ELSE [given |-> TRUE, text |-> chunk_list[1].text]

\* lines 111-116: the text of the first h1 chunk, or None
Title(chunk_list) ==
    LET h1 == SelectSeq(chunk_list, LAMBDA c : c.type = "h1")
    IN IF h1 = <<>> THEN NoTitle ELSE [given |-> TRUE, text |-> h1[1].text]

\* lines 109-132: the ParsedDocument of parse_content (filename, language and
\* the duration estimate are not modelled); the exception of _parse_content
\* leaves parse_content
ParseDocument(content, max_chunk_size) ==
    IF ParseContentRaises(content, max_chunk_size)
    THEN [done |-> TRUE, raised |-> TRUE, chunks |-> <<>>, title |-> NoTitle,
          total_chunks |-> 0, total_characters |-> 0]
    ELSE LET cs == ParseContent(content, max_chunk_size)
         IN [done |-> TRUE, raised |-> FALSE, chunks |-> cs, title |-> Title(cs),
             total_chunks |-> Len(cs), total_characters |-> SumOf(cs, "char_count")]

\* MarkdownParser(max_chunk_size).parse_content(content)
Parse ==
    /\ ~parsed.done
    /\ parsed' = ParseDocument(JoinBlocks(md.blocks), md.max_chunk_size)
    /\ UNCHANGED <<md, adapterVars, storeVars, api_key, pending, pc, request, chunks, idx, response,
                   job_status, audio_cache, api_stats, emitted, calllog, asked>>

ChunkerNext == Parse

ChunkerSpec == ChunkerInit /\ [][ChunkerNext]_vars

\* ------------------------------------------------- request construction
\* TTSSettings.pace: Field(default=1.1, ge=0.5, le=2.0), in hundredths
Paces == 50..200

\* the types of the chunks the parser makes
CallTypes == {"h1", "h2", "h3", "paragraph", "bullet"}

AdapterInit ==
    /\ call \in { [type |-> t, pace |-> v] : t \in CallTypes, v \in Paces }
    /\ payload = NoPayload
    /\ md = NoContent
    /\ parsed = NotParsed
    /\ api_key = "sk-live"
    /\ pending = {}
    /\ pc = [j \in Jobs |-> "idle"]
    /\ request = [j \in Jobs |-> [document |-> [chunks |-> <<>>], chunk_ids |-> NoChunkIds]]
    /\ chunks = [j \in Jobs |-> <<>>]
    /\ idx = [j \in Jobs |-> 0]
    /\ response = [j \in Jobs |-> NewResponse(<<>>)]
    /\ job_status = {}
    /\ audio_cache = <<>>
    /\ api_stats = <<>>
    /\ emitted = [j \in Jobs |-> <<>>]
    /\ calllog = [j \in Jobs |-> <<>>]
    /\ asked = [j \in Jobs |-> 0]
    /\ reply = NoReply
    /\ evicted = {}

\* _process_chunk_with_stats, lines 185-201: the payload of the request
BuildPayload ==
    /\ ~payload.built
    /\ payload' = [built |-> TRUE, pace |-> PaceSent(call.type, call.pace)]
    /\ UNCHANGED <<call, chunkerVars, storeVars, api_key, pending, pc, request, chunks,
                   idx, response, job_status, audio_cache, api_stats, emitted,
                   calllog, asked>>

AdapterNext == BuildPayload

AdapterSpec == AdapterInit /\ [][AdapterNext]_vars

\* ------------------------------------------------------ shared notions
Started(j) == pc[j] # "idle"

\* The chunk ids of a sequence of records carrying chunk_id
Ids(seq) == [k \in 1..Len(seq) |-> seq[k].chunk_id]

\* The ids of a chunk list
ChunkIds(cs) == [k \in 1..Len(cs) |-> cs[k].id]

NoRepeat(seq) == \A a, b \in 1..Len(seq) : a # b => seq[a] # seq[b]

Range(seq) == {seq[k] : k \in 1..Len(seq)}

\* The invocations whose request was sent to the provider
Posted(j) == SelectSeq(calllog[j], LAMBDA e : e.outcome.kind # "nocall")

\* The credential is missing: unset, or left at the placeholder
CredentialMissing == api_key = "" \/ api_key = "your-api-key-here"

\* ---------------------------------------------------------------- C1
C1_Range ==
    \A j \in Jobs :
        /\ 0 <= response[j].completed_chunks
        /\ response[j].completed_chunks <= response[j].total_chunks

\* C1: in every reachable state of a job completed_chunks lies between 0 and
\* total_chunks, and no step of the orchestrator decreases completed_chunks.
C1_CompletedBoundedMonotone ==
    /\ []C1_Range
    /\ [][\A j \in Jobs :
            response'[j].completed_chunks >= response[j].completed_chunks]_vars

\* A job whose counter went 0, 1, 2 and reached its total of 2
C1_Witness ==
    \E j \in Jobs :
        /\ response[j].total_chunks = 2
        /\ response[j].completed_chunks = 2
        /\ Len(emitted[j]) >= 3
        /\ emitted[j][2].completed_chunks = 1

\* ---------------------------------------------------------------- C2
JobCompleted(j) ==
    /\ response[j].status = "completed"
    /\ response[j].completed_chunks = response[j].total_chunks
    /\ Len(calllog[j]) = Len(chunks[j])
    /\ Len(response[j].results) = Len(chunks[j])

\* C2: when the consumer keeps consuming, every started job eventually is
\* completed with completed_chunks = total_chunks and every selected chunk
\* attempted, whatever each call ended in; the status is never failed, and a
\* failed chunk is never the last one attempted while chunks remain.
C2_AlwaysReachesCompleted ==
    /\ [](\A j \in Jobs : response[j].status # "failed")
    /\ [](\A j \in Jobs : pc[j] # "crashed")
    /\ \A j \in Jobs : Started(j) ~> (pc[j] = "done" /\ JobCompleted(j))

\* A finished job all of whose (two) chunks failed, one of them by a
\* transport fault
C2_Witness ==
    \E j \in Jobs :
        /\ pc[j] = "done"
        /\ JobCompleted(j)
        /\ Len(response[j].results) = 2
        /\ \A k \in 1..2 : ~response[j].results[k].success
        /\ calllog[j][1].outcome.kind = "transport"

\* ---------------------------------------------------------------- C3
\* The k-th snapshot of a job with n selected chunks, as the specification states it
ExpectedSnapshot(k, n, e) ==
    IF k = 1
    THEN e.status = "processing" /\ e.completed_chunks = 0 /\ e.calls = 0
    ELSE IF k <= n + 1
         THEN e.status = "processing" /\ e.completed_chunks = k - 1
         ELSE e.status = "completed" /\ e.completed_chunks = n

\* C3: a job with N selected chunks emits exactly N+2 snapshots: the first,
\* before any synthesis call, is (processing, 0); the k-th after it is
\* (processing, k); the last is (completed, N).
C3_SnapshotSequence ==
    \A j \in Jobs :
        LET n == Len(chunks[j]) IN
        /\ Len(emitted[j]) <= n + 2
        /\ \A k \in 1..Len(emitted[j]) : ExpectedSnapshot(k, n, emitted[j][k])
        /\ pc[j] \in {"yield_final", "done"} => Len(emitted[j]) = n + 2
        /\ Started(j) => Len(emitted[j]) >= 1

\* A finished job of two chunks with its four snapshots
C3_Witness ==
    \E j \in Jobs :
        /\ pc[j] = "done"
        /\ Len(chunks[j]) = 2
        /\ Len(emitted[j]) = 4
        /\ emitted[j][4].status = "completed"

\* ---------------------------------------------------------------- C4
\* C4: within a job the synthesis calls are issued in strictly ascending
\* chunk-id order, and the chunk ids of the result list and of the call-stat
\* list are, position by position, the ids of the chunks invoked so far (all
\* but the one whose request is still in flight).
C4_AscendingSameOrder ==
    \A j \in Jobs :
        LET inv == Ids(calllog[j])
            finished == IF pc[j] = "post" THEN Len(inv) - 1 ELSE Len(inv)
        IN /\ \A a, b \in 1..Len(inv) : a < b => inv[a] < inv[b]
           /\ Started(j) =>
                /\ Ids(response[j].results) = SubSeq(inv, 1, finished)
                /\ Ids(api_stats[j]) = SubSeq(inv, 1, finished)

\* A job given chunk_ids in descending order that has invoked two chunks
C4_Witness ==
    \E j \in Jobs :
        /\ request[j].chunk_ids.given
        /\ request[j].chunk_ids.ids = <<1, 0>>
        /\ Ids(calllog[j]) = <<0, 1>>
        /\ Len(response[j].results) = 2

\* ---------------------------------------------------------------- C5
\* C5: when chunk_ids is given (any list, the empty one and one naming absent
\* ids included) the chunks attempted are exactly the document's chunks whose
\* id is in the list and total_chunks is their count; when it is not given
\* all chunks of the document are attempted.
C5_SelectionExact ==
    \A j \in Jobs :
        Started(j) =>
            LET want == IF request[j].chunk_ids.given
                        THEN FilterChunks(request[j].document.chunks,
                                          request[j].chunk_ids.ids)
                        ELSE request[j].document.chunks
            IN /\ chunks[j] = want
               /\ response[j].total_chunks = Len(want)
               /\ pc[j] = "done" => Ids(calllog[j]) = ChunkIds(want)

\* ---------------------------------------------------------------- C6
\* C6: the result list and the call-stat list of a job hold one entry per
\* attempted chunk, no chunk id twice, both as long as completed_chunks; each
\* chunk_id is one of the chunks selected for the job, and the i-th result and
\* the i-th call stat agree on chunk_id and on the success flag.
C6_ParallelLists ==
    \A j \in Jobs :
        Started(j) =>
            LET rs == response[j].results
                st == api_stats[j]
            IN /\ Len(rs) = response[j].completed_chunks
               /\ Len(st) = response[j].completed_chunks
               /\ NoRepeat(Ids(rs))
               /\ NoRepeat(Ids(st))
               /\ Range(Ids(rs)) \subseteq Range(ChunkIds(chunks[j]))
               /\ \A i \in 1..Len(rs) :
                    /\ rs[i].chunk_id = st[i].chunk_id
                    /\ rs[i].success = st[i].success

\* A snapshot with two results, a successful one and one that found no audio
C6_Witness ==
    \E j \in Jobs :
        /\ pc[j] = "yield"
        /\ Len(response[j].results) = 2
        /\ response[j].results[1].success
        /\ ~response[j].results[2].success
        /\ calllog[j][2].outcome.body = "nokey"

\* ---------------------------------------------------------------- C7
SuccessIds(j) ==
    {response[j].results[k].chunk_id :
        k \in {i \in 1..Len(response[j].results) : response[j].results[i].success}}

CacheIds(j) == [k \in 1..Len(audio_cache[j]) |-> audio_cache[j][k][1]]

\* C7: the chunk ids in a job's fragment cache are the chunk ids of its
\* successful results, one cache entry per successful result and none for a
\* failed one.
C7_CacheIsSuccesses ==
    \A j \in Jobs :
        Started(j) =>
            /\ Range(CacheIds(j)) = SuccessIds(j)
            /\ NoRepeat(CacheIds(j))
            /\ Len(audio_cache[j]) = Cardinality(SuccessIds(j))

\* A job with a failed first chunk and a successful, cached second chunk
C7_Witness ==
    \E j \in Jobs :
        /\ Len(response[j].results) = 2
        /\ ~response[j].results[1].success
        /\ response[j].results[2].success
        /\ CacheIds(j) = <<1>>

\* ---------------------------------------------------------------- C8
\* C8: for every outcome of the call and for the unconfigured adapter,
\* synthesize returns (never raises) a result and a call stat for the given
\* chunk; the pair is successful, with audio, exactly for 2xx with audio, and
\* otherwise the result has succeeded = false, no audio and a non-empty error
\* and the call stat has succeeded = false.
C8_PairForEveryOutcome ==
    \A j \in Jobs :
        Started(j) =>
            \A k \in 1..Len(response[j].results) :
                LET r == response[j].results[k]
                    s == api_stats[j][k]
                    e == calllog[j][k]
                    good == e.outcome.kind = "2xx" /\ e.outcome.body = "audio"
                IN /\ ~e.raised
                   /\ r.chunk_id = e.chunk_id
                   /\ s.chunk_id = e.chunk_id
                   /\ r.success = good
                   /\ s.success = good
                   /\ r.success => r.audio_base64 \notin {None, ""}
                   /\ ~r.success => r.audio_base64 = None /\ r.error \notin {None, ""}

\* ---------------------------------------------------------------- C9
\* C9: with the credential missing every attempt yields a failed result whose
\* error says the key is not configured and a call stat with bytes_sent = 0
\* and succeeded = false, and no request is sent for any chunk of the job.
C9_NotConfiguredShortCircuit ==
    CredentialMissing =>
        \A j \in Jobs :
            /\ Posted(j) = <<>>
            /\ pc[j] # "post"
            /\ Started(j) =>
                 /\ Len(api_stats[j]) = Len(calllog[j])
                 /\ \A k \in 1..Len(response[j].results) :
                      /\ ~response[j].results[k].success
                      /\ response[j].results[k].error = "Sarvam AI API key not configured"
                      /\ api_stats[j][k].bytes_sent = 0
                      /\ ~api_stats[j][k].success

\* A finished job of two chunks run with the placeholder credential
C9_Witness ==
    /\ api_key = "your-api-key-here"
    /\ \E j \in Jobs :
         /\ pc[j] = "done"
         /\ Len(response[j].results) = 2
         /\ Len(api_stats[j]) = 2

\* --------------------------------------------------------------- C10
\* C10: the call stat of every synthesis call has bytes_received equal to the
\* size of the response whenever a response was received (2xx with audio, 2xx
\* with a missing, empty or unparsable audio payload, non-2xx), and 0 only
\* when no response was received.
C10_BytesReceivedIsResponseSize ==
    \A j \in Jobs :
        Started(j) =>
            \A k \in 1..Len(api_stats[j]) :
                LET s == api_stats[j][k]
                    o == calllog[j][k].outcome
                IN IF o.kind \in {"2xx", "status"}
                   THEN s.bytes_received = o.size
                   ELSE s.bytes_received = 0

\* --------------------------------------------------------------- C11
\* The calls of job j that have returned
Finished(j) == SelectSeq(calllog[j], LAMBDA e : e.outcome.kind # "inflight")

\* The chunk of job j's own document with the given id
OwnChunk(j, chunk_id) ==
    CHOOSE c \in Range(request[j].document.chunks) : c.id = chunk_id

IsAudio(o) == o.kind = "2xx" /\ o.body = "audio"

\* C11: with jobs interleaving at their suspension points, a job has at most
\* one synthesis call in flight; its results, its call stats and its cached
\* fragments are, entry by entry, those of its own calls on its own document;
\* and different generate calls have different job ids.
C11_JobsIsolated ==
    /\ \A j1, j2 \in Jobs :
          (j1 # j2 /\ Started(j1) /\ Started(j2)) => JobId(j1) # JobId(j2)
    /\ \A j \in Jobs :
          LET fin == Finished(j)
              rs == response[j].results
          IN /\ Len(calllog[j]) - Len(fin) <= 1
             /\ Len(calllog[j]) - Len(fin) = 1 <=> pc[j] = "post"
             /\ \A k \in 1..Len(rs) :
                   k <= Len(fin) =>
                     /\ rs[k].chunk_id = fin[k].chunk_id
                     /\ rs[k].success = IsAudio(fin[k].outcome)
             /\ Len(rs) <= Len(fin) + 1
             /\ JobId(j) \in DOMAIN api_stats =>
                   /\ Len(api_stats[JobId(j)]) = Len(fin)
                   /\ \A k \in 1..Len(fin) :
                         LET s == api_stats[JobId(j)][k] IN
                         /\ s.chunk_id = fin[k].chunk_id
                         /\ s.success = IsAudio(fin[k].outcome)
                         /\ s.characters_sent = OwnChunk(j, s.chunk_id).char_count
             /\ JobId(j) \in DOMAIN audio_cache =>
                   [k \in 1..Len(audio_cache[JobId(j)]) |-> audio_cache[JobId(j)][k][1]]
                     = Ids(SelectSeq(fin, LAMBDA e : IsAudio(e.outcome)))

\* Two jobs on different documents, each with one call returned (one with
\* audio, one with an error) and each with its second call in flight
C11_Witness ==
    /\ pc[1] = "post" /\ pc[2] = "post"
    /\ request[1].document # request[2].document
    /\ Len(response[1].results) = 1 /\ Len(response[2].results) = 1
    /\ response[1].results[1].success
    /\ ~response[2].results[1].success
    /\ Len(audio_cache[JobId(1)]) = 1 /\ Len(audio_cache[JobId(2)]) = 0

\* --------------------------------------------------------------- C12
\* C12: the synthesis calls issued for a job never outnumber the snapshots its
\* consumer has asked for after the initial one, so a consumer that stops
\* asking stops the calls.
C12_CallsFollowRequests ==
    \A j \in Jobs : Len(calllog[j]) <= asked[j]

\* A consumer that has asked once, with one call made and a chunk left
C12_Witness ==
    \E j \in Jobs :
        /\ pc[j] = "yield"
        /\ asked[j] = 1
        /\ Len(calllog[j]) = 1
        /\ Len(chunks[j]) = 2

\* --------------------------------------------------------------- C13
\* C13: export_audio fails with the not-found failure when the job id is not
\* in the fragment cache and with a different, empty failure when it is there
\* with no fragment; in both cases nothing is written and the registry, the
\* cache and the call stats stay as they were.
C13_ExportFailures ==
    [][\A j \in Jobs :
         Export(j) =>
           LET id == JobId(j) IN
           /\ id \notin DOMAIN audio_cache =>
                 reply'.error = "Job not found" /\ reply'.written = <<>>
           /\ (id \in DOMAIN audio_cache /\ audio_cache[id] = <<>>) =>
                 /\ reply'.error \notin {None, "Job not found"}
                 /\ reply'.written = <<>>
           /\ (id \in DOMAIN audio_cache /\ audio_cache[id] # <<>>) =>
                 reply'.error = None
           /\ UNCHANGED <<job_status, audio_cache, api_stats>>]_vars

\* The export of a finished job all of whose chunks failed
C13_Witness ==
    \E j \in Jobs :
        /\ pc[j] = "done"
        /\ Len(response[j].results) = 2
        /\ \A k \in 1..2 : ~response[j].results[k].success
        /\ reply.job_id = JobId(j)
        /\ reply.error = "No audio segments to export"
        /\ reply.written = <<>>

\* --------------------------------------------------------------- C14
Fragments(written) == SelectSeq(written, LAMBDA w : w.kind = "fragment")

\* C14: an export of a job with N cached fragments, against the document the
\* job was generated from, writes the N fragments in ascending chunk-id order,
\* each followed at once by a silence of its chunk's pause_after_ms when that
\* is above 0, and the exported duration is at least the sum of the fragment
\* durations plus the sum of those pauses.
C14_ExportOrderAndPauses ==
    [][\A j \in Jobs :
         (Export(j) /\ JobId(j) \in DOMAIN audio_cache) =>
           LET cache == audio_cache[JobId(j)]
               w == reply'.written
               fr == Fragments(w)
               pause(i) == OwnChunk(j, w[i].chunk_id).pause_after_ms
           IN cache # <<>> =>
                /\ Len(fr) = Len(cache)
                /\ {fr[k].chunk_id : k \in 1..Len(fr)} = {cache[k][1] : k \in 1..Len(cache)}
                /\ \A a, b \in 1..Len(fr) : a < b => fr[a].chunk_id < fr[b].chunk_id
                /\ \A i \in 1..Len(w) :
                      IF w[i].kind = "fragment"
                      THEN pause(i) > 0 =>
                             /\ i < Len(w)
                             /\ w[i + 1].kind = "silence"
                             /\ w[i + 1].ms = pause(i)
                      ELSE i > 1 /\ w[i - 1].kind = "fragment"
                /\ reply'.duration_ms >=
                      SumOf(fr, "ms")
                      + SumOf([k \in 1..Len(fr) |->
                                 [ms |-> OwnChunk(j, fr[k].chunk_id).pause_after_ms]], "ms")]_vars

\* The export of a job whose heading and paragraph both have a fragment
C14_Witness ==
    \E j \in Jobs :
        /\ reply.job_id = JobId(j)
        /\ reply.error = None
        /\ Len(reply.written) = 4
        /\ reply.written[2].kind = "silence" /\ reply.written[2].ms = 800
        /\ reply.written[4].kind = "silence" /\ reply.written[4].ms = 300
        /\ reply.duration_ms = 2 * SegmentMs(B64Decode("QUJD")) + 1100

\* --------------------------------------------------------------- C15
HeadingTypes == {"h1", "h2", "h3"}

\* C15: in an export a gain is applied to a fragment exactly when its chunk
\* has a loudness boost above 1.0; of the chunks the parser makes exactly the
\* h1, h2 and h3 chunks have a boost above 1.0 and the others have 1.0; so
\* the fragments of heading chunks get a gain and no others.
C15_GainOnlyForHeadings ==
    /\ \A j \in Jobs : \A c \in Range(request[j].document.chunks) :
          IF c.type \in HeadingTypes THEN c.loudness_boost > 10
          ELSE c.loudness_boost = 10
    /\ \A j \in Jobs :
          reply.job_id = JobId(j) =>
            \A i \in 1..Len(reply.written) :
                reply.written[i].kind = "fragment" =>
                  LET c == OwnChunk(j, reply.written[i].chunk_id) IN
                  /\ reply.written[i].gained <=> c.loudness_boost > 10
                  /\ reply.written[i].gained <=> c.type \in HeadingTypes
                  /\ reply.written[i].gained => reply.written[i].gain_db > 0

\* The export of a job with an h2 fragment, raised by 4 dB, and a bullet
\* fragment, left as it is
C15_Witness ==
    \E j \in Jobs :
        /\ reply.job_id = JobId(j)
        /\ Len(Fragments(reply.written)) = 2
        /\ OwnChunk(j, 0).type = "h2" /\ OwnChunk(j, 1).type = "bullet"
        /\ Fragments(reply.written)[1].gained
        /\ Fragments(reply.written)[1].gain_db = 4
        /\ ~Fragments(reply.written)[2].gained

\* --------------------------------------------------------------- C16
\* C16: cleanup_job removes a job's registry, cache and call-stat entries
\* together, and from then on get_job_status, get_audio_preview,
\* get_generation_summary and export_audio report the id as not found; a job
\* that was not evicted keeps its three entries.
C16_EvictionRemovesForGood ==
    \A j \in Jobs :
        LET id == JobId(j) IN
        /\ id \in evicted =>
              /\ id \notin job_status
              /\ id \notin DOMAIN audio_cache
              /\ id \notin DOMAIN api_stats
              /\ ~GetJobStatus(job_status, id).found
              /\ \A c \in 0..MaxChunks : ~GetAudioPreview(audio_cache, id, c).found
              /\ ~GetGenerationSummary(api_stats, job_status, id).found
              /\ ExportAudio(audio_cache, id, request[j].document).error = "Job not found"
        /\ (Started(j) /\ id \notin evicted) =>
              /\ id \in job_status
              /\ id \in DOMAIN audio_cache
              /\ id \in DOMAIN api_stats

\* --------------------------------------------------------------- C17
\* C17: get_generation_summary reports not-found only for an id that is not
\* in the registry; for every registered job, from its first snapshot on and
\* also with no chunk selected, it returns a rollup whose total_api_calls is
\* the number of call stats so far and is successful_calls + failed_calls,
\* with the character and byte totals summed over those call stats.
C17_SummaryForEveryRegisteredJob ==
    \A j \in Jobs :
        LET id == JobId(j)
            s == GetGenerationSummary(api_stats, job_status, id)
        IN /\ ~s.found => id \notin job_status
           /\ id \in job_status =>
                 /\ s.found
                 /\ s.total_api_calls = Len(api_stats[id])
                 /\ s.total_api_calls = s.successful_calls + s.failed_calls
                 /\ s.total_characters = SumOf(api_stats[id], "characters_sent")
                 /\ s.total_bytes_sent = SumOf(api_stats[id], "bytes_sent")
                 /\ s.total_bytes_received = SumOf(api_stats[id], "bytes_received")

\* --------------------------------------------------------------- C18
\* C18: the ids of the chunks the parser returns are 0, 1, ..., n-1 in list
\* order, whatever number of chunks each block yields.
C18_IdsDense ==
    parsed.done => \A k \in 1..Len(parsed.chunks) : parsed.chunks[k].id = k - 1

\* A document of a two-bullet block, a block that yields nothing and a
\* paragraph that is split in two, parsed into chunks 0..3
C18_Witness ==
    /\ parsed.done
    /\ md.blocks = <<<<"-", " ", Letter, "\n", "-", " ", Letter>>,
                     <<"-", "\n", Letter>>,
                     Letters(2) \o <<".", " ">> \o Letters(2)>>
    /\ Len(parsed.chunks) = 4
    /\ parsed.chunks[2].type = "bullet"
    /\ parsed.chunks[4].type = "paragraph"
    /\ parsed.chunks[4].id = 3

\* --------------------------------------------------------------- C19
\* The block is read as a paragraph: it opens with no heading or quote marker
\* and has no list line
IsParagraphBlock(block) ==
    /\ block # <<>>
    /\ \A level \in 1..3 : HeadingGroup(block, level) = <<>>
    /\ \A i \in LineStarts(block) :
            BulletGroup(block, i) = <<>> /\ NumberedGroup(block, i) = <<>>
    /\ QuoteGroup(block, 1) = <<>>

\* C19: with a positive max_chunk_size, a paragraph block whose normalized
\* text is longer than max_chunk_size yields at least two paragraph chunks,
\* each of at most max_chunk_size characters; a paragraph block of at most
\* max_chunk_size characters yields exactly one paragraph chunk.
C19_LongParagraphSplit ==
    (parsed.done /\ md.max_chunk_size >= 1
       /\ Len(md.blocks) = 1 /\ IsParagraphBlock(Strip(md.blocks[1]))) =>
        LET text == CleanForTts(Strip(md.blocks[1]))
            cs == parsed.chunks
        IN /\ \A k \in 1..Len(cs) : cs[k].type = "paragraph"
           /\ IF Len(text) > md.max_chunk_size
              THEN /\ Len(cs) >= 2
                   /\ \A k \in 1..Len(cs) : cs[k].char_count <= md.max_chunk_size
              ELSE Len(cs) = 1

\* --------------------------------------------------------------- C20
\* C20: every chunk the parser produces with a positive max_chunk_size, of
\* any type, has char_count at most max_chunk_size.
C20_EveryChunkBounded ==
    (parsed.done /\ md.max_chunk_size >= 1) =>
        \A k \in 1..Len(parsed.chunks) :
            parsed.chunks[k].char_count <= md.max_chunk_size

\* --------------------------------------------------------------- C21
\* The document is one block that the parser reads as a paragraph, parsed
\* with a positive max_chunk_size
OneParagraph ==
    /\ parsed.done /\ ~parsed.raised
    /\ md.max_chunk_size >= 1
    /\ Len(md.blocks) = 1
    /\ IsParagraphBlock(Strip(md.blocks[1]))

\* C21: a block that matches no structural pattern and whose text is empty
\* after normalization (a horizontal rule, an image without alt text) yields
\* no chunk, and no chunk the parser returns has an empty text.
C21_NoEmptyChunk ==
    /\ (OneParagraph /\ CleanForTts(Strip(md.blocks[1])) = <<>>) => parsed.chunks = <<>>
    /\ (parsed.done /\ md.max_chunk_size >= 1) =>
          \A k \in 1..Len(parsed.chunks) : parsed.chunks[k].text # <<>>

\* --------------------------------------------------------------- C22
\* C22: for every document text and every max_chunk_size the parser returns
\* a chunk list and does not raise.
C22_NeverRaises == parsed.done => ~parsed.raised

\* --------------------------------------------------------------- C23
\* C23: the title of a parsed document is the text of its first h1 chunk in
\* reading order and is None when it has no h1 chunk; total_characters is the
\* sum of the chunks' character counts and total_chunks their number.
C23_TitleAndTotals ==
    (parsed.done /\ ~parsed.raised) =>
        LET cs == parsed.chunks
            h1 == {k \in 1..Len(cs) : cs[k].type = "h1"}
        IN /\ IF h1 = {} THEN ~parsed.title.given
              ELSE /\ parsed.title.given
                   /\ parsed.title.text = cs[CHOOSE k \in h1 : \A m \in h1 : k <= m].text
           /\ parsed.total_characters =
                 SumOf([k \in 1..Len(cs) |-> [n |-> Len(cs[k].text)]], "n")
           /\ parsed.total_chunks = Len(cs)

\* A document whose h1 heading comes after a paragraph that was split in two
C23_Witness ==
    /\ parsed.done /\ ~parsed.raised
    /\ Len(parsed.chunks) = 3
    /\ parsed.chunks[1].type = "paragraph"
    /\ parsed.chunks[3].type = "h1"
    /\ parsed.title = [given |-> TRUE, text |-> <<Letter>>]
    /\ parsed.total_characters = 6

\* --------------------------------------------------------------- C24
Count(s, c) == Len(SelectSeq(s, LAMBDA x : x = c))

\* C24: no chunk text holds two asterisks (in a row or as a pair around
\* text), an opening square bracket with a closing one after it, or a
\* backtick, whatever emphasis, link, image and code syntax the block held,
\* and an image with alt text becomes its alt text.
C24_NoMarkersRemain ==
    (parsed.done /\ ~parsed.raised) =>
        /\ \A k \in 1..Len(parsed.chunks) :
              LET t == parsed.chunks[k].text IN
              /\ Count(t, "*") < 2
              /\ ~\E a, b \in 1..Len(t) : a < b /\ t[a] = "[" /\ t[b] = "]"
              /\ Count(t, Backtick) = 0
        /\ md.blocks = <<<<"!", "[", Letter, "]", "(", Letter, ")">>>> =>
              /\ Len(parsed.chunks) = 1
              /\ parsed.chunks[1].text = <<Letter>>

\* --------------------------------------------------------------- C25
\* C25: every synthesis call of a job after its first starts at the end of a
\* pacing delay, whatever the call before it ended in; a delay is entered
\* only while a chunk is left, and it ends in the next call, so no delay
\* stands between the last call and the completed snapshot.
C25_DelayBetweenCalls ==
    [][\A j \in Jobs :
         /\ (Len(calllog'[j]) = Len(calllog[j]) + 1 /\ Len(calllog[j]) >= 1) =>
               pc[j] = "sleep"
         /\ (pc[j] # "sleep" /\ pc'[j] = "sleep") =>
               /\ idx[j] < Len(chunks[j])
               /\ Len(calllog[j]) = idx[j]
         /\ (pc[j] = "sleep" /\ pc'[j] # "sleep") =>
               Len(calllog'[j]) = Len(calllog[j]) + 1
         /\ pc'[j] = "yield_final" => pc[j] # "sleep"]_vars

\* A job in its pacing delay after a first call that failed
C25_Witness ==
    \E j \in Jobs :
        /\ pc[j] = "sleep"
        /\ Len(calllog[j]) = 1
        /\ Len(chunks[j]) = 2
        /\ ~response[j].results[1].success

\* --------------------------------------------------------------- C26
\* C26: for every pace from 0.5 to 2.0 the pace sent for an h1, h2 or h3
\* chunk is the configured pace less 0.1 but not under 0.9, and is lower than
\* the configured pace; the pace sent for any other chunk is the configured
\* pace.
C26_HeadingPaceSlower ==
    payload.built =>
        IF call.type \in HeadingTypes
        THEN /\ payload.pace = Max(90, call.pace - 10)
             /\ payload.pace < call.pace
        ELSE payload.pace = call.pace

\* --------------------------------------------------------------- C27
\* ceil(l / m)
CeilDiv(l, m) == (l + m - 1) \div m

\* the chunks from position a on are the hard split of sentence
IsHardSplit(cs, a, sentence, m) ==
    LET l == Len(sentence)
        n == CeilDiv(l, m)
    IN /\ Len(cs) = a - 1 + n
       /\ \A k \in 1..n :
             /\ cs[a - 1 + k].type = "paragraph"
             /\ cs[a - 1 + k].char_count = IF k < n THEN m ELSE l - m * (n - 1)
             /\ cs[a - 1 + k].text = Slice(sentence, m * (k - 1) + 1,
                                           IF k < n THEN m * k ELSE l)

\* C27: a sentence of length L above max_chunk_size = M becomes ceil(L / M)
\* consecutive paragraph chunks that are its slices in order, all of size M
\* but the last of size L - M * (ceil(L / M) - 1); the text buffered before
\* the sentence is flushed as a chunk of its own ahead of them.
C27_HardSplitSizes ==
    OneParagraph =>
        LET text == CleanForTts(Strip(md.blocks[1]))
            ss == SplitIntoSentences(text)
            m == md.max_chunk_size
        IN Len(text) > m =>
             /\ Len(ss) = 1 => IsHardSplit(parsed.chunks, 1, ss[1], m)
             /\ (Len(ss) = 2 /\ Len(ss[1]) <= m /\ Len(ss[2]) > m) =>
                   /\ parsed.chunks[1].text = ss[1]
                   /\ IsHardSplit(parsed.chunks, 2, ss[2], m)

\* A short sentence and a sentence of three letters at max_chunk_size 2: the
\* short one flushed, then slices of 2 and 1
C27_Witness ==
    /\ OneParagraph
    /\ md.max_chunk_size = 2
    /\ md.blocks = <<<<".", " ", Letter, Letter, Letter>>>>
    /\ Len(parsed.chunks) = 3
    /\ parsed.chunks[2].char_count = 2
    /\ parsed.chunks[3].char_count = 1

\* --------------------------------------------------------------- C28
\* the terminators of the specification
SentenceEnds == {".", "!", "?", Danda}

\* the places where a terminator is followed by whitespace
Boundaries(text) ==
    {i \in 2..Len(text) : IsWs(text[i]) /\ text[i - 1] \in SentenceEnds}

\* C28: the sentences of a paragraph that is split are cut at every full
\* stop, exclamation mark, question mark or purna viram that is followed by
\* whitespace and nowhere else: k such places give k + 1 non-empty
\* sentences, all but the last ending in their terminator.
C28_SplitAtEveryTerminator ==
    OneParagraph =>
        LET text == CleanForTts(Strip(md.blocks[1]))
            ss == SplitIntoSentences(text)
        IN Len(text) > md.max_chunk_size =>
             /\ Len(ss) = Cardinality(Boundaries(text)) + 1
             /\ \A k \in 1..Len(ss) :
                   /\ ss[k] # <<>>
                   /\ k < Len(ss) => ss[k][Len(ss[k])] \in SentenceEnds

\* --------------------------------------------------------------- C29
\* C29: whatever cleanup_job calls interleave with running jobs, the
\* registry, the fragment cache and the call stats hold the same job ids, an
\* evicted id is in none of them again, no job's generator ends in an
\* unhandled error, and no job has two results for one chunk.
C29_StoresAgreeUnderEviction ==
    /\ job_status = DOMAIN audio_cache
    /\ job_status = DOMAIN api_stats
    /\ \A id \in evicted :
          id \notin job_status \cup DOMAIN audio_cache \cup DOMAIN api_stats
    /\ \A j \in Jobs :
          /\ pc[j] # "crashed"
          /\ NoRepeat(Ids(response[j].results))

\* --------------------------------------------------------------- C30
MarkupChars == {"*", "[", "]", "(", ")", "!", Backtick}

\* the letters of the chunk texts from chunk k on
RECURSIVE LettersIn(_, _)
LettersIn(cs, k) ==
    IF k > Len(cs) THEN 0 ELSE Count(cs[k].text, Letter) + LettersIn(cs, k + 1)

\* C30: the parser drops no readable text: in a document without emphasis,
\* link, image or code syntax every letter of every line is in the text of a
\* chunk, also on the lines after a heading line and on the lines of a list
\* block that are no list items.
C30_NoTextDropped ==
    (parsed.done /\ ~parsed.raised /\ md.max_chunk_size >= 1
       /\ \A b \in 1..Len(md.blocks) : \A c \in MarkupChars : Count(md.blocks[b], c) = 0) =>
        LettersIn(parsed.chunks, 1) = Count(JoinBlocks(md.blocks), Letter)

====
